---- MODULE Spec2Model ----
(***************************************************************************)
(* Agent orchestration and long-running operations of the InterVu backend. *)
(*                                                                         *)
(*   backend/app/google_adk/__init__.py  SequentialAgent, ParallelAgent,   *)
(*                                       LoopAgent                         *)
(*   backend/app/adk/orchestrator.py     A2AOrchestrator                   *)
(*   backend/app/adk/long_running.py     LongRunningOperation              *)
(*   backend/app/adk/session_service.py  InterVuSessionService             *)
(*                                                                         *)
(* Every coroutine is cut at its awaits: one action is the code that runs  *)
(* between two suspension points of the event loop.                        *)
(***************************************************************************)
EXTENDS Integers, Sequences, FiniteSets, TLC

(***************************************************************************)
(* Bounds of the workflow model.                                           *)
(***************************************************************************)
MaxUnits == 3

MaxIter == 3

\* Units of work: unit u is an Agent whose run() appends u to its input or
\* raises.
UnitIds == 0 .. 1

AgentNames == {"a0", "missing"}

Inputs == {<< >>, <<7>>}

UnitLists == UNION {[1 .. n -> UnitIds] : n \in 0 .. MaxUnits}

VARIABLES
    agents,          \* A2AOrchestrator.agents: name -> unit
    kind,            \* which coroutine the caller is running
    wAgents,         \* self.agents of the workflow (self.agent for a loop)
    max_iterations,  \* LoopAgent.max_iterations
    input_data,      \* argument of run()
    result,          \* local variable result of run()
    idx,             \* loop position of run()
    pc,              \* position of the caller's coroutine
    tState,          \* ParallelAgent: state of the gathered task of unit i
    tRes,            \* ParallelAgent: result of the gathered task of unit i
    gErr,            \* ParallelAgent: exception set on the gather future
    outcome,         \* what run()/call_agent() returned or raised
    log,             \* invocations of units, in real-time order
    obs              \* what call_agent sent to the logger and to its span

wfvars == <<agents, kind, wAgents, max_iterations, input_data, result, idx,
            pc, tState, tRes, gErr, outcome, log, obs>>

NoOutcome == [kind |-> "none", val |-> << >>, err |-> ""]

Returned(v) == [kind |-> "ret", val |-> v, err |-> ""]

Raised(e) == [kind |-> "raise", val |-> << >>, err |-> e]

\* Agent.run of unit u on input x, when it returns.
UnitRun(u, x) == Append(x, u)

\* The error unit u raises, when it raises.
UnitErr(u) == IF u = 0 THEN "err0" ELSE IF u = 1 THEN "err1" ELSE "err2"

StartEv(i, u, x) == [ev |-> "start", i |-> i, unit |-> u, arg |-> x]

RetEv(i, u, v) == [ev |-> "ret", i |-> i, unit |-> u, arg |-> v]

RaiseEv(i, u) == [ev |-> "raise", i |-> i, unit |-> u, arg |-> << >>]

\* logger.info / logger.error of event e.
LogEv(e) == [sink |-> "logger", key |-> e, val |-> ""]

\* span.set_attribute(k, v)
SpanEv(k, v) == [sink |-> "span", key |-> k, val |-> v]

InitWorkflow ==
    /\ agents = [n \in {"a0"} |-> 0]
    /\ kind = "idle"
    /\ wAgents = << >>
    /\ max_iterations = 0
    /\ input_data = << >>
    /\ result = << >>
    /\ idx = 0
    /\ pc = "idle"
    /\ tState = << >>
    /\ tRes = << >>
    /\ gErr = ""
    /\ outcome = NoOutcome
    /\ log = << >>
    /\ obs = << >>

\* A2AOrchestrator.register_agent
register_agent(name, u) ==
    /\ agents' = [n \in DOMAIN agents \cup {name} |->
                     IF n = name THEN u ELSE agents[n]]
    /\ UNCHANGED <<kind, wAgents, max_iterations, input_data, result, idx,
                   pc, tState, tRes, gErr, outcome, log, obs>>

\* The caller starts a coroutine: common frame.
Enter(k, units, n, x) ==
    /\ kind = "idle"
    /\ kind' = k
    /\ wAgents' = units
    /\ max_iterations' = n
    /\ input_data' = x
    /\ tState' = [i \in 1 .. Len(units) |-> "pending"]
    /\ tRes' = [i \in 1 .. Len(units) |-> << >>]
    /\ gErr' = ""
    /\ UNCHANGED agents

----------------------------------------------------------------------------
(* SequentialAgent.run *)

\* result = input_data; enter the for loop.
SeqRun(units, x) ==
    /\ Enter("seq", units, 0, x)
    /\ result' = x
    /\ idx' = 1
    /\ pc' = "loop"
    /\ outcome' = NoOutcome
    /\ log' = << >>
    /\ obs' = << >>

\* for agent in self.agents: call agent.run(result), or return result.
SeqNext ==
    /\ kind = "seq" /\ pc = "loop"
    /\ IF idx <= Len(wAgents)
       THEN /\ log' = Append(log, StartEv(idx, wAgents[idx], result))
            /\ pc' = "await"
            /\ UNCHANGED outcome
       ELSE /\ outcome' = Returned(result)
            /\ pc' = "done"
            /\ UNCHANGED log
    /\ UNCHANGED obs
    /\ UNCHANGED <<agents, kind, wAgents, max_iterations, input_data, result,
                   idx, tState, tRes, gErr>>

\* Variant of SeqUnitReturn: every unit is given the external input.
SeqUnitReturn_input ==
    /\ kind = "seq" /\ pc = "await"
    /\ result' = UnitRun(wAgents[idx], input_data)
    /\ log' = Append(log, RetEv(idx, wAgents[idx], result'))
    /\ idx' = idx + 1
    /\ pc' = "loop"
    /\ UNCHANGED obs
    /\ UNCHANGED <<agents, kind, wAgents, max_iterations, input_data, tState,
                   tRes, gErr, outcome>>

\* result = await agent.run(result): the unit returns.
SeqUnitReturn ==
    /\ kind = "seq" /\ pc = "await"
    /\ result' = UnitRun(wAgents[idx], result)
    /\ log' = Append(log, RetEv(idx, wAgents[idx], result'))
    /\ idx' = idx + 1
    /\ pc' = "loop"
    /\ UNCHANGED obs
    /\ UNCHANGED <<agents, kind, wAgents, max_iterations, input_data, tState,
                   tRes, gErr, outcome>>

\* Variant of SeqUnitRaise that swallows the error and goes on with the
\* next unit.
SeqUnitRaise_continue ==
    /\ kind = "seq" /\ pc = "await"
    /\ log' = Append(log, RaiseEv(idx, wAgents[idx]))
    /\ idx' = idx + 1
    /\ pc' = "loop"
    /\ UNCHANGED obs
    /\ UNCHANGED <<agents, kind, wAgents, max_iterations, input_data, result,
                   tState, tRes, gErr, outcome>>

\* await agent.run(result): the unit raises, run() propagates the error.
SeqUnitRaise ==
    /\ kind = "seq" /\ pc = "await"
    /\ log' = Append(log, RaiseEv(idx, wAgents[idx]))
    /\ outcome' = Raised(UnitErr(wAgents[idx]))
    /\ pc' = "done"
    /\ UNCHANGED obs
    /\ UNCHANGED <<agents, kind, wAgents, max_iterations, input_data, result,
                   idx, tState, tRes, gErr>>

----------------------------------------------------------------------------
(* LoopAgent.run *)

LoopRun(u, n, x) ==
    /\ Enter("loop", <<u>>, n, x)
    /\ result' = x
    /\ idx' = 0
    /\ pc' = "loop"
    /\ outcome' = NoOutcome
    /\ log' = << >>
    /\ obs' = << >>

\* Variant of LoopNext whose range is one iteration too long.
LoopNext_inclusive ==
    /\ kind = "loop" /\ pc = "loop"
    /\ IF idx <= max_iterations
       THEN /\ log' = Append(log, StartEv(idx, wAgents[1], result))
            /\ pc' = "await"
            /\ UNCHANGED outcome
       ELSE /\ outcome' = Returned(result)
            /\ pc' = "done"
            /\ UNCHANGED log
    /\ UNCHANGED obs
    /\ UNCHANGED <<agents, kind, wAgents, max_iterations, input_data, result,
                   idx, tState, tRes, gErr>>

\* for i in range(self.max_iterations): call self.agent.run(result), or
\* return result.
LoopNext ==
    /\ kind = "loop" /\ pc = "loop"
    /\ IF idx < max_iterations
       THEN /\ log' = Append(log, StartEv(idx, wAgents[1], result))
            /\ pc' = "await"
            /\ UNCHANGED outcome
       ELSE /\ outcome' = Returned(result)
            /\ pc' = "done"
            /\ UNCHANGED log
    /\ UNCHANGED obs
    /\ UNCHANGED <<agents, kind, wAgents, max_iterations, input_data, result,
                   idx, tState, tRes, gErr>>

LoopUnitReturn ==
    /\ kind = "loop" /\ pc = "await"
    /\ result' = UnitRun(wAgents[1], result)
    /\ log' = Append(log, RetEv(idx, wAgents[1], result'))
    /\ idx' = idx + 1
    /\ pc' = "loop"
    /\ UNCHANGED obs
    /\ UNCHANGED <<agents, kind, wAgents, max_iterations, input_data, tState,
                   tRes, gErr, outcome>>

LoopUnitRaise ==
    /\ kind = "loop" /\ pc = "await"
    /\ log' = Append(log, RaiseEv(idx, wAgents[1]))
    /\ outcome' = Raised(UnitErr(wAgents[1]))
    /\ pc' = "done"
    /\ UNCHANGED obs
    /\ UNCHANGED <<agents, kind, wAgents, max_iterations, input_data, result,
                   idx, tState, tRes, gErr>>

----------------------------------------------------------------------------
(* ParallelAgent.run *)

\* tasks = [agent.run(input_data) ...]; await asyncio.gather(*tasks)
ParRun(units, x) ==
    /\ Enter("par", units, 0, x)
    /\ result' = << >>
    /\ idx' = 0
    /\ pc' = "gather"
    /\ outcome' = NoOutcome
    /\ log' = << >>
    /\ obs' = << >>

\* The event loop runs the first step of the task of unit i; gather
\* scheduled the tasks in list order and the loop is FIFO.
ParTaskStart(i) ==
    /\ kind = "par"
    /\ i \in DOMAIN tState
    /\ tState[i] = "pending"
    /\ \A j \in 1 .. i - 1 : tState[j] # "pending"
    /\ tState' = [tState EXCEPT ![i] = "running"]
    /\ log' = Append(log, StartEv(i, wAgents[i], input_data))
    /\ UNCHANGED obs
    /\ UNCHANGED <<agents, kind, wAgents, max_iterations, input_data, result,
                   idx, pc, tRes, gErr, outcome>>

\* The task of unit i completes, in any order with the others.
ParTaskReturn(i) ==
    /\ kind = "par"
    /\ i \in DOMAIN tState
    /\ tState[i] = "running"
    /\ tState' = [tState EXCEPT ![i] = "done"]
    /\ tRes' = [tRes EXCEPT ![i] = UnitRun(wAgents[i], input_data)]
    /\ log' = Append(log, RetEv(i, wAgents[i], tRes'[i]))
    /\ UNCHANGED obs
    /\ UNCHANGED <<agents, kind, wAgents, max_iterations, input_data, result,
                   idx, pc, gErr, outcome>>

\* The task of unit i raises: the first exception is set on the gather
\* future; the sibling tasks are not cancelled.
ParTaskRaise(i) ==
    /\ kind = "par"
    /\ i \in DOMAIN tState
    /\ tState[i] = "running"
    /\ tState' = [tState EXCEPT ![i] = "failed"]
    /\ gErr' = IF gErr = "" THEN UnitErr(wAgents[i]) ELSE gErr
    /\ log' = Append(log, RaiseEv(i, wAgents[i]))
    /\ UNCHANGED obs
    /\ UNCHANGED <<agents, kind, wAgents, max_iterations, input_data, result,
                   idx, pc, tRes, outcome>>

\* The outputs of the units in the order in which they completed.
CompletionOrder ==
    LET rets == SelectSeq(log, LAMBDA e : e.ev = "ret")
    IN  [k \in 1 .. Len(rets) |-> rets[k].arg]

\* Variant of ParGatherDone that returns the outputs in completion order.
ParGatherDone_completion ==
    /\ kind = "par" /\ pc = "gather"
    /\ \/ /\ gErr # ""
          /\ outcome' = Raised(gErr)
          /\ UNCHANGED result
       \/ /\ gErr = ""
          /\ \A i \in DOMAIN tState : tState[i] = "done"
          /\ result' = CompletionOrder
          /\ outcome' = Returned(result')
    /\ pc' = "done"
    /\ UNCHANGED obs
    /\ UNCHANGED <<agents, kind, wAgents, max_iterations, input_data, idx,
                   tState, tRes, gErr, log>>

\* Variant of ParGatherDone that gathers with return_exceptions: it waits
\* for every task and returns the list of what the tasks produced.
ParGatherDone_return_exceptions ==
    /\ kind = "par" /\ pc = "gather"
    /\ \A i \in DOMAIN tState : tState[i] \in {"done", "failed"}
    /\ result' = [i \in DOMAIN tState |-> tRes[i]]
    /\ outcome' = Returned(result')
    /\ pc' = "done"
    /\ UNCHANGED obs
    /\ UNCHANGED <<agents, kind, wAgents, max_iterations, input_data, idx,
                   tState, tRes, gErr, log>>

\* results = await asyncio.gather(*tasks); return list(results)
ParGatherDone ==
    /\ kind = "par" /\ pc = "gather"
    /\ \/ /\ gErr # ""
          /\ outcome' = Raised(gErr)
          /\ UNCHANGED result
       \/ /\ gErr = ""
          /\ \A i \in DOMAIN tState : tState[i] = "done"
          /\ result' = [i \in DOMAIN tState |-> tRes[i]]
          /\ outcome' = Returned(result')
    /\ pc' = "done"
    /\ UNCHANGED obs
    /\ UNCHANGED <<agents, kind, wAgents, max_iterations, input_data, idx,
                   tState, tRes, gErr, log>>

----------------------------------------------------------------------------
(* A2AOrchestrator.call_agent *)

\* with tracer.start_as_current_span(...) as span: the two attributes set
\* on the span, then logger.info("a2a_call_started").
CallStarted(name) ==
    <<SpanEv("agent.name", name), SpanEv("has_context", "False"),
      LogEv("a2a_call_started")>>

\* Variant of call_agent that dispatches an unregistered name to a default
\* unit instead of raising.
call_agent_default(name, x) ==
    /\ Enter("call", <<IF name \in DOMAIN agents THEN agents[name] ELSE 0>>,
             0, x)
    /\ result' = x
    /\ idx' = 1
    /\ outcome' = NoOutcome
    /\ pc' = "await"
    /\ log' = <<StartEv(1, wAgents'[1], x)>>
    /\ obs' = CallStarted(name)

\* if agent_name not in self.agents: raise ValueError; else
\* agent = self.agents[agent_name]; await agent.run(input_data)
call_agent(name, x) ==
    IF name \notin DOMAIN agents
    THEN /\ Enter("call", << >>, 0, x)
         /\ result' = x
         /\ idx' = 1
         /\ outcome' = Raised("ValueError")
         /\ pc' = "done"
         /\ log' = << >>
         /\ obs' = <<LogEv("agent_not_found")>>
    ELSE /\ Enter("call", <<agents[name]>>, 0, x)
         /\ result' = x
         /\ idx' = 1
         /\ outcome' = NoOutcome
         /\ pc' = "await"
         /\ log' = <<StartEv(1, agents[name], x)>>
         /\ obs' = CallStarted(name)

\* result = await agent.run(input_data); return result
CallUnitReturn ==
    /\ kind = "call" /\ pc = "await"
    /\ result' = UnitRun(wAgents[1], result)
    /\ log' = Append(log, RetEv(1, wAgents[1], result'))
    /\ obs' = obs \o <<LogEv("a2a_call_completed"), SpanEv("success", "True")>>
    /\ outcome' = Returned(result')
    /\ pc' = "done"
    /\ UNCHANGED <<agents, kind, wAgents, max_iterations, input_data, idx,
                   tState, tRes, gErr>>

\* Variant of CallUnitRaise that swallows the error and returns the input.
CallUnitRaise_default ==
    /\ kind = "call" /\ pc = "await"
    /\ log' = Append(log, RaiseEv(1, wAgents[1]))
    /\ obs' = obs \o <<LogEv("a2a_call_failed"), SpanEv("success", "False"),
                       SpanEv("error", UnitErr(wAgents[1]))>>
    /\ outcome' = Returned(result)
    /\ pc' = "done"
    /\ UNCHANGED <<agents, kind, wAgents, max_iterations, input_data, result,
                   idx, tState, tRes, gErr>>

\* except Exception as e: logger.error("a2a_call_failed"),
\* span.set_attribute("success", False), span.set_attribute("error", str(e)),
\* raise
CallUnitRaise ==
    /\ kind = "call" /\ pc = "await"
    /\ log' = Append(log, RaiseEv(1, wAgents[1]))
    /\ obs' = obs \o <<LogEv("a2a_call_failed"), SpanEv("success", "False"),
                       SpanEv("error", UnitErr(wAgents[1]))>>
    /\ outcome' = Raised(UnitErr(wAgents[1]))
    /\ pc' = "done"
    /\ UNCHANGED <<agents, kind, wAgents, max_iterations, input_data, result,
                   idx, tState, tRes, gErr>>

\* The caller has received the outcome and goes on to its next call; the
\* coroutine's frame, and the gathered tasks still running, are dropped.
Finish ==
    /\ kind # "idle" /\ pc = "done"
    /\ kind' = "idle"
    /\ wAgents' = << >>
    /\ max_iterations' = 0
    /\ input_data' = << >>
    /\ result' = << >>
    /\ idx' = 0
    /\ pc' = "idle"
    /\ tState' = << >>
    /\ tRes' = << >>
    /\ gErr' = ""
    /\ outcome' = NoOutcome
    /\ log' = << >>
    /\ obs' = << >>
    /\ UNCHANGED agents

----------------------------------------------------------------------------
(***************************************************************************)
(* Long-running operations: LongRunningOperation over the session store.   *)
(***************************************************************************)
\* The requests served and the logger failures weigh at most MaxWork:
\* start_operation, which creates a Session and schedules a task, weighs 2;
\* any other request and a failure of the logger weigh 1.
MaxWork == 5

Callers == {"c1", "c2"}

Before(c, d) == c = "c1" /\ d = "c2"

Ops == {"op1", "op2"}

\* "all" is the user_id the manager passes to list_user_sessions.
Users == {"all", "u1"}

\* task_func: a unit that returns 42 or raises Exception("boom").
TaskFuncs == {"unit"}

Kwargs == {"k1"}

\* The value task_func returns, when it returns.
FuncResult(f) == 42

\* str(e) of the exception task_func raises, when it raises.
FuncError(f) == "boom"

VARIABLES
    store,          \* session store: session_id -> persisted Session
    running_tasks,  \* LongRunningOperation.running_tasks: operation_id -> task
    tasks,          \* background tasks (_run_task coroutines), by session_id
    call,           \* the API call each request handler is executing
    now,            \* datetime.utcnow()
    ret,            \* what the step just taken returned to its caller
    lastCancel,     \* operation of the last API call, if a cancel run alone
    work            \* weight of the API calls received

lrvars == <<store, running_tasks, tasks, call, now, ret, lastCancel, work>>

vars == <<wfvars, lrvars>>

\* A Session whose state has no key set (state.get(k) is None).
NoSession ==
    [user_id |-> "none", operation_id |-> "none", status |-> "none",
     progress |-> -1, kwargs |-> "none", started_at |-> 0, paused_at |-> 0,
     resumed_at |-> 0, completed_at |-> 0, failed_at |-> 0,
     cancelled_at |-> 0, result |-> 0, error |-> "none"]

NoTask ==
    [pc |-> "none", cancelReq |-> FALSE, func |-> "none", unitCalls |-> 0,
     session |-> NoSession]

None == [none |-> TRUE]

IdleCall ==
    [kind |-> "idle", pc |-> "idle", op |-> "none", user |-> "none",
     func |-> "none", kwargs |-> "none", sid |-> 0, session |-> NoSession,
     saves |-> 0]

NoRet ==
    [kind |-> "none", op |-> "none", exc |-> "none", val |-> None,
     saves |-> 0]

InitLongRunning ==
    /\ store = << >>
    /\ running_tasks = << >>
    /\ tasks = << >>
    /\ call = [c \in Callers |-> IdleCall]
    /\ now = 1
    /\ ret = NoRet
    /\ lastCancel = "none"
    /\ work = 0

Init == InitWorkflow /\ InitLongRunning

----------------------------------------------------------------------------
(* The backing session service (self.service) *)

\* service.create_session(app_name, user_id): a new Session, empty state.
service_create_session(st, user) ==
    Append(st, [NoSession EXCEPT !.user_id = user])

\* service.get_session(session_id): the persisted state.
service_get_session(st, sid) == st[sid]

\* service.save_session(session): persists the full state, last write wins.
service_save_session(st, sid, session) == [st EXCEPT ![sid] = session]

\* service.list_sessions(user_id): the sessions created for user_id, as the
\* set of their ids.
service_list_sessions(st, user) ==
    {sid \in DOMAIN st : st[sid].user_id = user}

\* next((s for s in sessions if s.state.get("operation_id") == operation_id),
\*      None) over list_user_sessions("all"); 0 stands for None.
FindSession(st, op) ==
    LET found == {sid \in service_list_sessions(st, "all") :
                     st[sid].operation_id = op}
    IN  IF found = {} THEN 0
        ELSE CHOOSE sid \in found : \A o \in found : sid <= o

\* A request arrives and handler c (the first free one) serves it.
CanCall(c, w) ==
    /\ work + w <= MaxWork
    /\ work' = work + w
    /\ call[c].pc = "idle"
    /\ \A d \in Callers : call[d].pc = "idle" => ~Before(d, c)

Alone == \A d \in Callers : call[d].pc = "idle"

\* The call of handler c returns v or raises e; its frame is dropped.
Return(c, e, v) ==
    /\ call' = [call EXCEPT ![c] = IdleCall]
    /\ ret' = [kind |-> call[c].kind, op |-> call[c].op, exc |-> e,
               val |-> v, saves |-> call[c].saves]

\* The call of handler c returns None right after a save_session.
ReturnSaved(c) ==
    /\ call' = [call EXCEPT ![c] = IdleCall]
    /\ ret' = [kind |-> call[c].kind, op |-> call[c].op, exc |-> "none",
               val |-> None, saves |-> call[c].saves + 1]

\* The call of handler c goes on to position p holding session s.
Goto(c, p, s, saved) ==
    /\ call' = [call EXCEPT ![c].pc = p, ![c].session = s,
                   ![c].saves = @ + saved]
    /\ ret' = NoRet

\* Handler c starts a call of kind k on op and awaits the session list.
Begin(c, k, op, p, st) ==
    LET sid == FindSession(st, op)
    IN  /\ call' = [call EXCEPT ![c] =
               [IdleCall EXCEPT !.kind = k, !.pc = p, !.op = op, !.sid = sid,
                   !.session = IF sid = 0 THEN NoSession
                               ELSE service_get_session(st, sid)]]
        /\ ret' = NoRet

----------------------------------------------------------------------------
(* LongRunningOperation.start_operation *)

\* initial_state is built (started_at = utcnow()), then create_session
\* awaits service.create_session.
StartCreate(c, op, user, f, kw) ==
    /\ CanCall(c, 2)
    /\ store' = service_create_session(store, user)
    /\ tasks' = Append(tasks, NoTask)
    /\ now' = now + 1
    /\ call' = [call EXCEPT ![c] =
          [IdleCall EXCEPT !.kind = "start", !.pc = "S2", !.op = op,
              !.user = user, !.func = f, !.kwargs = kw,
              !.sid = Len(store) + 1,
              !.session = [NoSession EXCEPT !.user_id = user,
                              !.operation_id = op, !.status = "running",
                              !.started_at = now, !.progress = 0,
                              !.kwargs = kw]]]
    /\ ret' = NoRet
    /\ lastCancel' = "none"
    /\ UNCHANGED running_tasks

\* create_session: session.state[key] = value for the initial state, then
\* awaits save_session.
StartSave(c) ==
    /\ call[c].kind = "start" /\ call[c].pc = "S2"
    /\ store' = service_save_session(store, call[c].sid, call[c].session)
    /\ Goto(c, "S3", call[c].session, 1)
    /\ UNCHANGED <<running_tasks, tasks, now, lastCancel, work>>

\* Variant of StartSchedule that awaits the unit instead of scheduling it:
\* the Session is completed when start_operation returns.
StartSchedule_await(c) ==
    /\ call[c].kind = "start" /\ call[c].pc = "S3"
    /\ LET s == [call[c].session EXCEPT !.status = "completed",
                    !.progress = 100, !.completed_at = now,
                    !.result = FuncResult(call[c].func)]
       IN  store' = service_save_session(store, call[c].sid, s)
    /\ tasks' = [tasks EXCEPT ![call[c].sid] =
                    [NoTask EXCEPT !.pc = "done", !.func = call[c].func,
                        !.unitCalls = 1]]
    /\ Return(c, "none", [operation_id |-> call[c].op])
    /\ UNCHANGED <<running_tasks, now, lastCancel, work>>

\* task = asyncio.create_task(self._run_task(...));
\* self.running_tasks[operation_id] = task; return operation_id
StartSchedule(c) ==
    /\ call[c].kind = "start" /\ call[c].pc = "S3"
    /\ tasks' = [tasks EXCEPT ![call[c].sid] =
                    [NoTask EXCEPT !.pc = "created", !.func = call[c].func]]
    /\ running_tasks' =
          [o \in DOMAIN running_tasks \cup {call[c].op} |->
              IF o = call[c].op THEN call[c].sid ELSE running_tasks[o]]
    /\ Return(c, "none", [operation_id |-> call[c].op])
    /\ UNCHANGED <<store, now, lastCancel, work>>

----------------------------------------------------------------------------
(* LongRunningOperation._run_task *)

\* task.cancel() on the task of session sid; no effect on a finished task.
CancelTask(ts, sid) ==
    IF ts[sid].pc = "done" THEN ts
    ELSE [ts EXCEPT ![sid].cancelReq = TRUE]

\* del self.running_tasks[operation_id]
DelTask(rt, op) == [o \in DOMAIN rt \ {op} |-> rt[o]]

Live(t) == t.pc \in {"created", "unit", "except"}

\* The task runs its first step: session = await get_session(session_id),
\* then try: result = await task_func(**kwargs).  The session is read here;
\* the call of the unit that follows the read touches no shared state.
RunTaskGet(sid) ==
    /\ tasks[sid].pc = "created" /\ ~tasks[sid].cancelReq
    /\ tasks' = [tasks EXCEPT ![sid].pc = "unit",
                    ![sid].unitCalls = @ + 1,
                    ![sid].session = service_get_session(store, sid)]
    /\ ret' = NoRet
    /\ UNCHANGED <<store, running_tasks, call, now, lastCancel, work>>

\* The fields _run_task sets when task_func has returned.
MarkCompleted(session, f, t) ==
    [session EXCEPT !.status = "completed", !.progress = 100,
        !.completed_at = t, !.result = FuncResult(f)]

\* The fields _run_task sets when task_func has raised.
MarkFailed(session, f, t) ==
    [session EXCEPT !.status = "failed", !.error = FuncError(f),
        !.failed_at = t]

\* task_func returned: mark as completed, await save_session(session),
\* logger.info("operation_completed"); the task finishes.
RunTaskCompleted(sid) ==
    /\ tasks[sid].pc = "unit" /\ ~tasks[sid].cancelReq
    /\ LET s == MarkCompleted(tasks[sid].session, tasks[sid].func, now)
       IN  /\ store' = service_save_session(store, sid, s)
           /\ tasks' = [tasks EXCEPT ![sid].pc = "done",
                           ![sid].session = s]
    /\ now' = now + 1
    /\ ret' = NoRet
    /\ UNCHANGED <<running_tasks, call, lastCancel, work>>

\* str(e) of the exception a failing logger call raises.
SinkError == "sink"

\* task_func returned: mark as completed, await save_session(session); then
\* logger.info("operation_completed"), still inside the try, raises: control
\* is in the except Exception branch, in front of its save.  The failure
\* of the logger is an event of the environment, counted in work.
RunTaskCompletedLogRaises(sid) ==
    /\ tasks[sid].pc = "unit" /\ ~tasks[sid].cancelReq
    /\ work + 1 <= MaxWork
    /\ work' = work + 1
    /\ LET s == MarkCompleted(tasks[sid].session, tasks[sid].func, now)
       IN  /\ store' = service_save_session(store, sid, s)
           /\ tasks' = [tasks EXCEPT ![sid].pc = "except",
                           ![sid].session = s]
    /\ now' = now + 1
    /\ ret' = NoRet
    /\ UNCHANGED <<running_tasks, call, lastCancel>>

\* except Exception as e, entered by the logger's exception: the session
\* object that was just marked completed is marked failed with str(e), then
\* await save_session(session), logger.error("operation_failed").
RunTaskLogFailed(sid) ==
    /\ tasks[sid].pc = "except" /\ ~tasks[sid].cancelReq
    /\ LET s == [MarkFailed(tasks[sid].session, tasks[sid].func, now)
                    EXCEPT !.error = SinkError]
       IN  /\ store' = service_save_session(store, sid, s)
           /\ tasks' = [tasks EXCEPT ![sid].pc = "done",
                           ![sid].session = s]
    /\ now' = now + 1
    /\ ret' = NoRet
    /\ UNCHANGED <<running_tasks, call, lastCancel, work>>

\* Variant of RunTaskFailed that only logs the error: nothing is recorded
\* on the Session.
RunTaskFailed_unrecorded(sid) ==
    /\ tasks[sid].pc = "unit" /\ ~tasks[sid].cancelReq
    /\ tasks' = [tasks EXCEPT ![sid].pc = "done"]
    /\ ret' = NoRet
    /\ UNCHANGED <<store, running_tasks, call, now, lastCancel, work>>

\* except Exception as e: mark as failed, await save_session(session),
\* logger.error("operation_failed"); the task finishes.
RunTaskFailed(sid) ==
    /\ tasks[sid].pc = "unit" /\ ~tasks[sid].cancelReq
    /\ LET s == MarkFailed(tasks[sid].session, tasks[sid].func, now)
       IN  /\ store' = service_save_session(store, sid, s)
           /\ tasks' = [tasks EXCEPT ![sid].pc = "done",
                           ![sid].session = s]
    /\ now' = now + 1
    /\ ret' = NoRet
    /\ UNCHANGED <<running_tasks, call, lastCancel, work>>

\* Variant of RunTaskCancelled that handles the cancellation as a failure of
\* the unit.
RunTaskCancelled_failed(sid) ==
    /\ Live(tasks[sid]) /\ tasks[sid].cancelReq
    /\ LET s == MarkFailed(tasks[sid].session, tasks[sid].func, now)
       IN  /\ store' = service_save_session(store, sid, s)
           /\ tasks' = [tasks EXCEPT ![sid].pc = "done",
                           ![sid].session = s]
    /\ ret' = NoRet
    /\ UNCHANGED <<running_tasks, call, now, lastCancel, work>>

\* CancelledError is thrown into the task at the await it is suspended at
\* (except asyncio.CancelledError: log), or the task never runs: it
\* finishes without writing to its Session.
RunTaskCancelled(sid) ==
    /\ Live(tasks[sid]) /\ tasks[sid].cancelReq
    /\ tasks' = [tasks EXCEPT ![sid].pc = "done"]
    /\ ret' = NoRet
    /\ UNCHANGED <<store, running_tasks, call, now, lastCancel, work>>

----------------------------------------------------------------------------
(* LongRunningOperation.pause_operation *)

\* sessions = await list_user_sessions("all")
PauseList(c, op) ==
    /\ CanCall(c, 1)
    /\ Begin(c, "pause", op, "P2", store)
    /\ lastCancel' = "none"
    /\ UNCHANGED <<store, running_tasks, tasks, now>>

\* Variant of PauseSave that pauses running operations only: for any other
\* status it returns without effect, as resume_operation does.
PauseSave_validated(c) ==
    /\ call[c].kind = "pause" /\ call[c].pc = "P2"
    /\ IF call[c].sid = 0
       THEN /\ Return(c, "ValueError", None)
            /\ UNCHANGED <<store, now>>
       ELSE IF call[c].session.status # "running"
       THEN /\ Return(c, "none", None)
            /\ UNCHANGED <<store, now>>
       ELSE /\ LET s == [call[c].session EXCEPT !.status = "paused",
                            !.paused_at = now]
               IN  /\ store' = service_save_session(store, call[c].sid, s)
                   /\ Goto(c, "P3", s, 1)
            /\ now' = now + 1
    /\ UNCHANGED <<running_tasks, tasks, lastCancel, work>>

\* Variant of PauseSave that returns silently when no session matches.
PauseSave_silent(c) ==
    /\ call[c].kind = "pause" /\ call[c].pc = "P2"
    /\ IF call[c].sid = 0
       THEN /\ Return(c, "none", None)
            /\ UNCHANGED <<store, now>>
       ELSE /\ LET s == [call[c].session EXCEPT !.status = "paused",
                            !.paused_at = now]
               IN  /\ store' = service_save_session(store, call[c].sid, s)
                   /\ Goto(c, "P3", s, 1)
            /\ now' = now + 1
    /\ UNCHANGED <<running_tasks, tasks, lastCancel, work>>

\* if not session: raise ValueError; status = "paused", paused_at = utcnow(),
\* await save_session(session)
PauseSave(c) ==
    /\ call[c].kind = "pause" /\ call[c].pc = "P2"
    /\ IF call[c].sid = 0
       THEN /\ Return(c, "ValueError", None)
            /\ UNCHANGED <<store, now>>
       ELSE /\ LET s == [call[c].session EXCEPT !.status = "paused",
                            !.paused_at = now]
               IN  /\ store' = service_save_session(store, call[c].sid, s)
                   /\ Goto(c, "P3", s, 1)
            /\ now' = now + 1
    /\ UNCHANGED <<running_tasks, tasks, lastCancel, work>>

\* Variant of PauseCancelTask that deletes the entry without the membership
\* test: del on an absent key raises KeyError.
PauseCancelTask_unguarded(c) ==
    /\ call[c].kind = "pause" /\ call[c].pc = "P3"
    /\ IF call[c].op \in DOMAIN running_tasks
       THEN /\ tasks' = CancelTask(tasks, running_tasks[call[c].op])
            /\ running_tasks' = DelTask(running_tasks, call[c].op)
            /\ Return(c, "none", None)
       ELSE /\ UNCHANGED <<tasks, running_tasks>>
            /\ Return(c, "KeyError", None)
    /\ UNCHANGED <<store, now, lastCancel, work>>

\* if operation_id in self.running_tasks: cancel the task, del the entry;
\* logger.info("operation_paused")
PauseCancelTask(c) ==
    /\ call[c].kind = "pause" /\ call[c].pc = "P3"
    /\ IF call[c].op \in DOMAIN running_tasks
       THEN /\ tasks' = CancelTask(tasks, running_tasks[call[c].op])
            /\ running_tasks' = DelTask(running_tasks, call[c].op)
       ELSE UNCHANGED <<tasks, running_tasks>>
    /\ Return(c, "none", None)
    /\ UNCHANGED <<store, now, lastCancel, work>>

----------------------------------------------------------------------------
(* LongRunningOperation.resume_operation *)

\* sessions = await list_user_sessions("all")
ResumeList(c, op) ==
    /\ CanCall(c, 1)
    /\ Begin(c, "resume", op, "R2", store)
    /\ lastCancel' = "none"
    /\ UNCHANGED <<store, running_tasks, tasks, now>>

\* Variant of ResumeSave without the check that the status is "paused".
ResumeSave_unchecked(c) ==
    /\ call[c].kind = "resume" /\ call[c].pc = "R2"
    /\ IF call[c].sid = 0
       THEN /\ Return(c, "ValueError", None)
            /\ UNCHANGED <<store, now>>
       ELSE /\ LET s == [call[c].session EXCEPT !.status = "running",
                            !.resumed_at = now]
               IN  /\ store' = service_save_session(store, call[c].sid, s)
                   /\ ReturnSaved(c)
            /\ now' = now + 1
    /\ UNCHANGED <<running_tasks, tasks, lastCancel, work>>

\* Variant of ResumeSave that schedules the task again and tracks it.
ResumeSave_reschedule(c) ==
    /\ call[c].kind = "resume" /\ call[c].pc = "R2"
    /\ IF call[c].sid = 0
       THEN /\ Return(c, "ValueError", None)
            /\ UNCHANGED <<store, now, running_tasks, tasks>>
       ELSE IF call[c].session.status # "paused"
       THEN /\ Return(c, "none", None)
            /\ UNCHANGED <<store, now, running_tasks, tasks>>
       ELSE /\ LET s == [call[c].session EXCEPT !.status = "running",
                            !.resumed_at = now]
               IN  /\ store' = service_save_session(store, call[c].sid, s)
                   /\ ReturnSaved(c)
            /\ now' = now + 1
            /\ tasks' = [tasks EXCEPT ![call[c].sid].pc = "created",
                            ![call[c].sid].cancelReq = FALSE]
            /\ running_tasks' =
                  [o \in DOMAIN running_tasks \cup {call[c].op} |->
                      IF o = call[c].op THEN call[c].sid
                      ELSE running_tasks[o]]
    /\ UNCHANGED <<lastCancel, work>>

\* if not session: raise ValueError; if status != "paused": return;
\* status = "running", resumed_at = utcnow(), await save_session(session);
\* logger.info("operation_resumed"); no task is scheduled.
ResumeSave(c) ==
    /\ call[c].kind = "resume" /\ call[c].pc = "R2"
    /\ IF call[c].sid = 0
       THEN /\ Return(c, "ValueError", None)
            /\ UNCHANGED <<store, now>>
       ELSE IF call[c].session.status # "paused"
       THEN /\ Return(c, "none", None)
            /\ UNCHANGED <<store, now>>
       ELSE /\ LET s == [call[c].session EXCEPT !.status = "running",
                            !.resumed_at = now]
               IN  /\ store' = service_save_session(store, call[c].sid, s)
                   /\ ReturnSaved(c)
            /\ now' = now + 1
    /\ UNCHANGED <<running_tasks, tasks, lastCancel, work>>

----------------------------------------------------------------------------
(* LongRunningOperation.cancel_operation *)

\* Variant of CancelBegin that updates the session whether or not a task
\* is tracked.
CancelBegin_always(c, op) ==
    /\ CanCall(c, 1)
    /\ IF op \in DOMAIN running_tasks
       THEN /\ tasks' = CancelTask(tasks, running_tasks[op])
            /\ running_tasks' = DelTask(running_tasks, op)
       ELSE UNCHANGED <<tasks, running_tasks>>
    /\ Begin(c, "cancel", op, "K2", store)
    /\ lastCancel' = IF Alone THEN op ELSE "none"
    /\ UNCHANGED <<store, now>>

\* if operation_id in self.running_tasks: cancel the task, del the entry,
\* sessions = await list_user_sessions("all"); otherwise return.
CancelBegin(c, op) ==
    /\ CanCall(c, 1)
    /\ IF op \in DOMAIN running_tasks
       THEN /\ tasks' = CancelTask(tasks, running_tasks[op])
            /\ running_tasks' = DelTask(running_tasks, op)
            /\ Begin(c, "cancel", op, "K2", store)
       ELSE /\ call' = call
            /\ ret' = [NoRet EXCEPT !.kind = "cancel", !.op = op]
            /\ UNCHANGED <<tasks, running_tasks>>
    /\ lastCancel' = IF Alone THEN op ELSE "none"
    /\ UNCHANGED <<store, now>>

\* if session: status = "cancelled", cancelled_at = utcnow(),
\* await save_session(session); logger.info("operation_cancelled")
CancelSave(c) ==
    /\ call[c].kind = "cancel" /\ call[c].pc = "K2"
    /\ IF call[c].sid = 0
       THEN /\ Return(c, "none", None)
            /\ UNCHANGED <<store, now>>
       ELSE /\ LET s == [call[c].session EXCEPT !.status = "cancelled",
                            !.cancelled_at = now]
               IN  /\ store' = service_save_session(store, call[c].sid, s)
                   /\ ReturnSaved(c)
            /\ now' = now + 1
    /\ UNCHANGED <<running_tasks, tasks, lastCancel, work>>

----------------------------------------------------------------------------
(* LongRunningOperation.get_status *)

\* The dictionary get_status builds from a Session.
StatusOf(op, session) ==
    [operation_id |-> op,
     status |-> session.status,
     progress |-> IF session.progress = -1 THEN 0 ELSE session.progress,
     started_at |-> session.started_at,
     paused_at |-> session.paused_at,
     completed_at |-> session.completed_at,
     error |-> session.error]

\* sessions = await list_user_sessions("all"); if not session: return
\* None; return {...}.  The list is the only await and nothing but the
\* return follows it: the call is one read of the store.
get_status(c, op) ==
    /\ CanCall(c, 1)
    /\ LET sid == FindSession(store, op)
       IN  ret' = [kind |-> "status", op |-> op, exc |-> "none",
                   val |-> IF sid = 0 THEN None
                           ELSE StatusOf(op, service_get_session(store, sid)),
                   saves |-> 0]
    /\ lastCancel' = "none"
    /\ UNCHANGED <<store, running_tasks, tasks, call, now>>

----------------------------------------------------------------------------
(* A2AOrchestrator.get_agent *)

\* The Optional[Agent] value that is unit u (None is the other one).
Agent(u) == [none |-> FALSE, unit |-> u]

\* Variant of get_agent that raises the error of call_agent for a name that
\* is not registered.
get_agent_raise(name) ==
    /\ Enter("get", << >>, 0, << >>)
    /\ result' = << >>
    /\ idx' = 0
    /\ outcome' = IF name \in DOMAIN agents
                  THEN Returned(Agent(agents[name]))
                  ELSE Raised("ValueError")
    /\ pc' = "done"
    /\ log' = << >>
    /\ obs' = << >>

\* return self.agents.get(name): the registered unit, or None.
get_agent(name) ==
    /\ Enter("get", << >>, 0, << >>)
    /\ result' = << >>
    /\ idx' = 0
    /\ outcome' = Returned(IF name \in DOMAIN agents
                           THEN Agent(agents[name]) ELSE None)
    /\ pc' = "done"
    /\ log' = << >>
    /\ obs' = << >>

----------------------------------------------------------------------------
(* A2AOrchestrator.create_sequential_workflow, create_parallel_workflow,   *)
(* create_loop_workflow                                                    *)

NameLists == UNION {[1 .. n -> AgentNames] : n \in 0 .. MaxUnits}

\* The workflow object a builder returns.
Workflow(k, units, n) == [wf |-> k, agents |-> units, max_iterations |-> n]

\* agents = [self.agents[name] for name in agent_names]: indexing the dict
\* with a key it does not hold raises KeyError, and the builder is left
\* before its logger call and before the workflow is constructed.
Build(k, names, n) ==
    /\ result' = << >>
    /\ idx' = 0
    /\ pc' = "done"
    /\ log' = << >>
    /\ IF \A i \in 1 .. Len(names) : names[i] \in DOMAIN agents
       THEN LET units == [i \in 1 .. Len(names) |-> agents[names[i]]]
            IN  /\ Enter("create", units, n, << >>)
                /\ outcome' = Returned(Workflow(k, units, n))
                /\ obs' = <<LogEv(k)>>
       ELSE /\ Enter("create", << >>, 0, << >>)
            /\ outcome' = Raised("KeyError")
            /\ obs' = << >>

create_sequential_workflow(agent_names) ==
    Build("sequential_workflow_created", agent_names, 0)

create_parallel_workflow(agent_names) ==
    Build("parallel_workflow_created", agent_names, 0)

\* agent = self.agents[agent_name]; LoopAgent(agent=agent, max_iterations)
create_loop_workflow(agent_name, n) ==
    Build("loop_workflow_created", <<agent_name>>, n)

----------------------------------------------------------------------------
NextWF ==
    /\ \/ \E n \in AgentNames, u \in UnitIds : register_agent(n, u)
       \/ \E units \in UnitLists, x \in Inputs : SeqRun(units, x)
       \/ SeqNext
       \/ SeqUnitReturn
       \/ SeqUnitRaise
       \/ \E u \in UnitIds, n \in 0 .. MaxIter, x \in Inputs :
             LoopRun(u, n, x)
       \/ LoopNext
       \/ LoopUnitReturn
       \/ LoopUnitRaise
       \/ \E units \in UnitLists, x \in Inputs : ParRun(units, x)
       \/ \E i \in 1 .. MaxUnits : ParTaskStart(i)
       \/ \E i \in 1 .. MaxUnits : ParTaskReturn(i)
       \/ \E i \in 1 .. MaxUnits : ParTaskRaise(i)
       \/ ParGatherDone
       \/ \E n \in AgentNames, x \in Inputs : call_agent(n, x)
       \/ CallUnitReturn
       \/ CallUnitRaise
       \/ \E n \in AgentNames : get_agent(n)
       \/ \E names \in NameLists : create_sequential_workflow(names)
       \/ \E names \in NameLists : create_parallel_workflow(names)
       \/ \E a \in AgentNames, n \in 0 .. MaxIter :
             create_loop_workflow(a, n)
       \/ Finish
    /\ UNCHANGED lrvars

\* The workflow composer and the orchestrator.
SpecWF == Init /\ [][NextWF]_vars

NextLR ==
    /\ \/ \E c \in Callers, op \in Ops, u \in Users, f \in TaskFuncs,
             kw \in Kwargs : StartCreate(c, op, u, f, kw)
       \/ \E c \in Callers : StartSave(c)
       \/ \E c \in Callers : StartSchedule(c)
       \/ \E sid \in DOMAIN tasks : RunTaskGet(sid)
       \/ \E sid \in DOMAIN tasks : RunTaskCompleted(sid)
       \/ \E sid \in DOMAIN tasks : RunTaskCompletedLogRaises(sid)
       \/ \E sid \in DOMAIN tasks : RunTaskLogFailed(sid)
       \/ \E sid \in DOMAIN tasks : RunTaskFailed(sid)
       \/ \E sid \in DOMAIN tasks : RunTaskCancelled(sid)
       \/ \E c \in Callers, op \in Ops : PauseList(c, op)
       \/ \E c \in Callers : PauseSave(c)
       \/ \E c \in Callers : PauseCancelTask(c)
       \/ \E c \in Callers, op \in Ops : ResumeList(c, op)
       \/ \E c \in Callers : ResumeSave(c)
       \/ \E c \in Callers, op \in Ops : CancelBegin(c, op)
       \/ \E c \in Callers : CancelSave(c)
       \/ \E c \in Callers, op \in Ops : get_status(c, op)
    /\ UNCHANGED wfvars

\* The long-running operation manager.
SpecLR == Init /\ [][NextLR]_vars

----------------------------------------------------------------------------
(***************************************************************************)
(* Properties of the workflow composer and the orchestrator (SpecWF).      *)
(***************************************************************************)

\* The k-th invocation event of a sequential run of units on input x: unit
\* i starts on the output of unit i-1 and returns before unit i+1 starts.
SeqEvent(units, x, k) ==
    IF k % 2 = 1
    THEN StartEv((k + 1) \div 2, units[(k + 1) \div 2],
                 x \o SubSeq(units, 1, (k - 1) \div 2))
    ELSE RetEv(k \div 2, units[k \div 2], x \o SubSeq(units, 1, k \div 2))

\* C1: SequentialAgent.run invokes the units strictly in list order, each
\* one starting after its predecessor returned and on exactly the
\* predecessor's output (the first on the input), and returns the last
\* unit's output, the input itself for an empty list.
SequentialOrder ==
    kind = "seq" =>
        /\ Len(log) <= 2 * Len(wAgents)
        /\ \A k \in 1 .. Len(log) :
              \/ log[k] = SeqEvent(wAgents, input_data, k)
              \/ /\ k = Len(log) /\ k % 2 = 0 /\ outcome.kind = "raise"
                 /\ log[k] = RaiseEv(k \div 2, wAgents[k \div 2])
        /\ outcome.kind = "ret" =>
              /\ Len(log) = 2 * Len(wAgents)
              /\ outcome.val = input_data \o wAgents

\* A three-unit sequential run has returned.
SequentialRan ==
    /\ kind = "seq" /\ outcome.kind = "ret"
    /\ wAgents = <<0, 1, 0>>
    /\ input_data = <<7>>
    /\ outcome.val = <<7, 0, 1, 0>>

\* C2: ParallelAgent.run gives every unit the same input and returns the
\* list whose i-th element is the output of the i-th unit, whatever the
\* order in which the units complete.
ParallelOrder ==
    kind = "par" =>
        /\ \A k \in 1 .. Len(log) :
              log[k].ev = "start" => log[k].arg = input_data
        /\ outcome.kind = "ret" =>
              outcome.val = [i \in 1 .. Len(wAgents) |->
                                UnitRun(wAgents[i], input_data)]

\* A parallel run has returned whose last unit completed first and whose
\* first unit completed last.
ParallelReversed ==
    /\ kind = "par" /\ outcome.kind = "ret"
    /\ wAgents = <<0, 1, 1>>
    /\ Len(log) = 6
    /\ log[4].ev = "ret" /\ log[4].i = 3
    /\ log[5].ev = "ret" /\ log[5].i = 2
    /\ log[6].ev = "ret" /\ log[6].i = 1

Rep(u, n) == [i \in 1 .. n |-> u]

\* The k-th invocation event of a loop over unit u on input x.
LoopEvent(u, x, k) ==
    IF k % 2 = 1
    THEN StartEv((k - 1) \div 2, u, x \o Rep(u, (k - 1) \div 2))
    ELSE RetEv(k \div 2 - 1, u, x \o Rep(u, k \div 2))

\* C3: LoopAgent.run with max_iterations = n invokes its unit exactly n
\* times, one after another, each on the previous output, and returns the
\* last output; with n = 0 the unit is not invoked and the input is returned.
LoopCount ==
    kind = "loop" =>
        /\ Len(log) <= 2 * max_iterations
        /\ \A k \in 1 .. Len(log) :
              \/ log[k] = LoopEvent(wAgents[1], input_data, k)
              \/ /\ k = Len(log) /\ k % 2 = 0 /\ outcome.kind = "raise"
                 /\ log[k] = RaiseEv(k \div 2 - 1, wAgents[1])
        /\ outcome.kind = "ret" =>
              /\ Len(log) = 2 * max_iterations
              /\ outcome.val = input_data \o Rep(wAgents[1], max_iterations)

\* A loop of three iterations has returned.
LoopRan ==
    /\ kind = "loop" /\ outcome.kind = "ret"
    /\ max_iterations = 3
    /\ outcome.val = input_data \o <<1, 1, 1>>

\* C4: call_agent with a name that is not in the registry raises ValueError,
\* invokes no unit and leaves the registry unchanged.
CallAgentNotFound ==
    [][\A n \in AgentNames, x \in Inputs :
          (call_agent(n, x) /\ n \notin DOMAIN agents) =>
              /\ outcome' = Raised("ValueError")
              /\ pc' = "done"
              /\ log' = << >>
              /\ agents' = agents]_vars

\* call_agent has raised ValueError for an unregistered name.
CallAgentRaisedNotFound ==
    /\ kind = "call" /\ pc = "done"
    /\ outcome = Raised("ValueError")
    /\ log = << >>
    /\ "missing" \notin DOMAIN agents

----------------------------------------------------------------------------
(***************************************************************************)
(* Properties of the long-running operation manager (SpecLR).              *)
(***************************************************************************)

\* C5: once the unit of a started operation has returned v, get_status
\* shows status = completed with progress = 100 and result = v, and
\* failed_at, cancelled_at and paused_at unset.
StatusShowsResult ==
    (ret.kind = "status" /\ ret.val # None /\ ret.val.status = "completed")
        => /\ ret.val.progress = 100
           /\ "result" \in DOMAIN ret.val
           /\ ret.val.result = FuncResult("unit")
           /\ ret.val.paused_at = 0

\* C6: resume_operation on an operation whose Session status, when resume
\* looks it up, is not paused raises nothing, leaves the store and the
\* task table unchanged, sets no resumed_at and saves nothing.
ResumeNotPausedNoOp ==
    [][\A c \in Callers :
          (ResumeSave(c) /\ call[c].sid # 0
              /\ call[c].session.status # "paused") =>
              /\ ret' = [kind |-> "resume", op |-> call[c].op,
                         exc |-> "none", val |-> None, saves |-> 0]
              /\ store' = store
              /\ running_tasks' = running_tasks
              /\ tasks' = tasks]_vars

\* resume_operation has returned from a completed operation, which has no
\* resumed_at.
ResumedCompleted ==
    /\ ret.kind = "resume" /\ ret.exc = "none" /\ ret.saves = 0
    /\ FindSession(store, ret.op) # 0
    /\ store[FindSession(store, ret.op)].status = "completed"
    /\ store[FindSession(store, ret.op)].resumed_at = 0

\* C7: a cancel_operation(op) that directly follows a cancel_operation(op)
\* does not raise and changes neither the store nor the task table nor any
\* task.
CancelTwiceNoOp ==
    [][\A c \in Callers, op \in Ops :
          (CancelBegin(c, op) /\ lastCancel = op /\ Alone) =>
              /\ ret' = [kind |-> "cancel", op |-> op, exc |-> "none",
                         val |-> None, saves |-> 0]
              /\ call' = call
              /\ store' = store
              /\ running_tasks' = running_tasks
              /\ tasks' = tasks]_vars

\* The second of two cancel_operation calls in a row has returned and the
\* Session is cancelled, with the cancelled_at of the first call.
CancelledTwice ==
    /\ ret.kind = "cancel" /\ ret.exc = "none" /\ ret.saves = 0
    /\ lastCancel = ret.op /\ Alone
    /\ work = 4
    /\ FindSession(store, ret.op) # 0
    /\ store[FindSession(store, ret.op)].status = "cancelled"
    /\ store[FindSession(store, ret.op)].cancelled_at # 0

NoSessionOf(op) == \A sid \in DOMAIN store : store[sid].operation_id # op

\* C8: pause_operation and resume_operation on an operation_id for which
\* no Session exists raise ValueError, and neither the store nor the task
\* table changes.
UnknownOperationNotFound ==
    [][\A c \in Callers :
          /\ \A op \in Ops :
                ((PauseList(c, op) \/ ResumeList(c, op)) /\ NoSessionOf(op))
                    => (call'[c].sid = 0 /\ store' = store
                          /\ running_tasks' = running_tasks /\ tasks' = tasks)
          /\ ((PauseSave(c) \/ ResumeSave(c)) /\ call[c].sid = 0)
                => /\ ret'.kind = call[c].kind
                   /\ ret'.exc = "ValueError"
                   /\ store' = store
                   /\ running_tasks' = running_tasks
                   /\ tasks' = tasks]_vars

\* pause_operation has raised ValueError for an operation_id of which the
\* store, holding another operation, has no Session.
PauseRaisedNotFound ==
    /\ ret.kind = "pause" /\ ret.exc = "ValueError"
    /\ NoSessionOf(ret.op)
    /\ Len(store) > 0

\* The tasks of operation op that are running and not asked to cancel.
LiveTasksOf(op) ==
    {sid \in DOMAIN tasks :
        /\ Live(tasks[sid]) /\ ~tasks[sid].cancelReq
        /\ store[sid].operation_id = op}

\* C9: for every operation_id at most one live background task exists, and
\* it is the one running_tasks tracks.
OneLiveTaskPerOperation ==
    \A op \in Ops :
        /\ Cardinality(LiveTasksOf(op)) <= 1
        /\ \A sid \in LiveTasksOf(op) :
              op \in DOMAIN running_tasks /\ running_tasks[op] = sid

\* No API call is in flight and no background task is running.
Quiescent ==
    /\ Alone
    /\ \A sid \in DOMAIN tasks : ~Live(tasks[sid])

\* C10: an operation whose Session status is paused, completed, failed or
\* cancelled has no entry in running_tasks (stated of the states in which
\* every call has returned and every task has finished).
TerminalNotTracked ==
    Quiescent =>
        \A sid \in DOMAIN store :
            store[sid].status \in {"paused", "completed", "failed",
                                   "cancelled"}
                => store[sid].operation_id \notin DOMAIN running_tasks

\* The lifecycle timestamps of a Session.
TimestampsOf(s) ==
    <<s.started_at, s.paused_at, s.resumed_at, s.completed_at, s.failed_at,
      s.cancelled_at>>

\* C11: a lifecycle timestamp of a Session, once set, keeps its value: no
\* later pause, resume, cancel or background completion overwrites it.
TimestampsSetOnce ==
    [][\A sid \in DOMAIN store : \A k \in 1 .. 6 :
          TimestampsOf(store[sid])[k] # 0 =>
              TimestampsOf(store'[sid])[k] = TimestampsOf(store[sid])[k]]_vars

\* C12: when the unit of a started operation raises, the background task
\* stores status = failed with the error's message and failed_at; no caller
\* receives the error, and the start_operation call of that Session has
\* returned before.
BackgroundFailureContained ==
    [][\A sid \in DOMAIN tasks :
          RunTaskFailed(sid) =>
              /\ store'[sid].status = "failed"
              /\ store'[sid].error = FuncError(tasks[sid].func)
              /\ store'[sid].failed_at # 0
              /\ call' = call
              /\ ret' = NoRet
              /\ \A c \in Callers :
                    ~(call[c].kind = "start" /\ call[c].sid = sid)]_vars

\* The unit of an operation has raised and its Session is failed with the
\* unit's message, while no call is in flight.
FailedInBackground ==
    \E sid \in DOMAIN tasks :
        /\ tasks[sid].pc = "done" /\ tasks[sid].unitCalls = 1
        /\ store[sid].status = "failed"
        /\ store[sid].error = "boom"
        /\ store[sid].failed_at # 0
        /\ store[sid].result = 0
        /\ Alone

\* C13: resume_operation on an operation it finds paused stores status =
\* running and resumed_at with one save, schedules no task and adds no
\* running_tasks entry; the unit of a start_operation call is invoked at
\* most once, whatever pause, resume and cancel calls follow.
ResumeRestartsNothing ==
    [][/\ \A sid \in DOMAIN tasks' : tasks'[sid].unitCalls <= 1
       /\ \A c \in Callers :
             (ResumeSave(c) /\ call[c].sid # 0
                 /\ call[c].session.status = "paused") =>
                 /\ store'[call[c].sid].status = "running"
                 /\ store'[call[c].sid].resumed_at = now
                 /\ now # 0
                 /\ ret' = [kind |-> "resume", op |-> call[c].op,
                            exc |-> "none", val |-> None, saves |-> 1]
                 /\ tasks' = tasks
                 /\ running_tasks' = running_tasks]_vars

\* resume_operation has returned from a paused operation: the Session is
\* running again, its task was cancelled by the pause and nothing is tracked.
ResumedPaused ==
    /\ ret.kind = "resume" /\ ret.exc = "none" /\ ret.saves = 1
    /\ FindSession(store, ret.op) # 0
    /\ LET sid == FindSession(store, ret.op)
       IN  /\ store[sid].status = "running"
           /\ store[sid].paused_at # 0
           /\ store[sid].resumed_at # 0
           /\ tasks[sid].pc = "done"
           /\ tasks[sid].cancelReq
    /\ ret.op \notin DOMAIN running_tasks

\* The background tasks of operation op that have not finished.
UnfinishedTasksOf(op) ==
    {sid \in DOMAIN tasks :
        Live(tasks[sid]) /\ store[sid].operation_id = op}

\* C14: cancel_operation called after the operation has completed, failed
\* or been paused is a silent no-op: a cancel that finds the Session
\* completed or failed stores nothing, and a cancel called on a paused
\* operation that has no unfinished task, with no other call in flight,
\* returns at once leaving the store and the task table as they are.
CancelAfterEndNoOp ==
    [][\A c \in Callers :
          /\ (CancelSave(c) /\ call[c].sid # 0
                 /\ call[c].session.status \in {"completed", "failed"})
                => store' = store
          /\ \A op \in Ops :
                (CancelBegin(c, op) /\ Alone /\ FindSession(store, op) # 0
                    /\ store[FindSession(store, op)].status = "paused"
                    /\ UnfinishedTasksOf(op) = {})
                  => /\ call' = call
                     /\ ret'.kind = "cancel" /\ ret'.exc = "none"
                     /\ store' = store
                     /\ running_tasks' = running_tasks]_vars

\* C15: a Session whose status is running has an entry in running_tasks
\* whose task has not finished (stated of the states in which no call is in
\* flight, and of the operations that were started once and that the
\* manager's lookup finds).
RunningIsTracked ==
    Alone =>
        \A op \in Ops :
            (/\ FindSession(store, op) # 0
             /\ Cardinality({o \in DOMAIN store :
                                store[o].operation_id = op}) = 1
             /\ store[FindSession(store, op)].status = "running")
                => /\ op \in DOMAIN running_tasks
                   /\ Live(tasks[running_tasks[op]])

\* C16: when unit k of a SequentialAgent raises, run fails with exactly the
\* error of unit k and no unit after k is invoked.
SequentialFailFast ==
    kind = "seq" =>
        \A k \in 1 .. Len(log) :
            log[k].ev = "raise" =>
                /\ k = Len(log)
                /\ pc = "done"
                /\ outcome = Raised(UnitErr(wAgents[log[k].i]))
                /\ \A j \in 1 .. Len(log) :
                      log[j].ev = "start" => log[j].i <= log[k].i

\* The second of three units of a sequential run has raised.
SequentialFailed ==
    /\ kind = "seq" /\ pc = "done"
    /\ wAgents = <<0, 1, 0>>
    /\ outcome = Raised("err1")
    /\ Len(log) = 4
    /\ log[4] = RaiseEv(2, 1)

\* The positions of the raise events in the invocation log.
RaisesIn(l) == {k \in 1 .. Len(l) : l[k].ev = "raise"}

\* C17: when a unit of a ParallelAgent fails, run fails with the error of
\* the unit that failed first and returns no list; it can fail as soon as
\* the failure is there, whatever the other units are doing, and it fails
\* only if a unit failed.
ParallelFailFast ==
    kind = "par" =>
        /\ outcome.kind = "raise" => RaisesIn(log) # {}
        /\ RaisesIn(log) # {} =>
              LET first == CHOOSE k \in RaisesIn(log) :
                               \A j \in RaisesIn(log) : k <= j
              IN  /\ outcome.kind # "ret"
                  /\ pc = "gather" => ENABLED ParGatherDone
                  /\ pc = "done" => outcome = Raised(UnitErr(log[first].unit))

\* A parallel run has failed with the error of its second unit, which
\* failed first; the first unit failed later and the third is still running.
ParallelFailedEarly ==
    /\ kind = "par" /\ pc = "done"
    /\ wAgents = <<0, 1, 0>>
    /\ outcome = Raised("err1")
    /\ tState = <<"failed", "failed", "running">>

ObsOf(sink, key) ==
    {k \in 1 .. Len(obs) : obs[k].sink = sink /\ obs[k].key = key}

\* C18: call_agent on a registered name invokes that unit exactly once with
\* the input and returns the unit's result; when the unit raises, the failure
\* is logged (a2a_call_failed) and put on the span (success = False), and the
\* caller gets the unit's own error, never a value.
CallAgentReraises ==
    [][/\ \A n \in AgentNames, x \in Inputs :
             (call_agent(n, x) /\ n \in DOMAIN agents) =>
                 /\ log' = <<StartEv(1, agents[n], x)>>
                 /\ wAgents' = <<agents[n]>>
                 /\ outcome' = NoOutcome
       /\ (kind' = "call" /\ wAgents' # << >>) =>
             /\ {k \in 1 .. Len(log') : log'[k].ev = "start"} = {1}
             /\ pc' = "done" =>
                   \/ /\ log' = <<log'[1], RetEv(1, wAgents'[1],
                                      UnitRun(wAgents'[1], input_data'))>>
                      /\ outcome' = Returned(UnitRun(wAgents'[1], input_data'))
                      /\ ObsOf("logger", "a2a_call_failed")' = {}
                   \/ /\ log' = <<log'[1], RaiseEv(1, wAgents'[1])>>
                      /\ outcome' = Raised(UnitErr(wAgents'[1]))
                      /\ ObsOf("logger", "a2a_call_failed")' # {}
                      /\ \E k \in 1 .. Len(obs') :
                            obs'[k] = SpanEv("success", "False")
                      /\ \A k \in 1 .. Len(obs') :
                            obs'[k] # SpanEv("success", "True")]_vars

\* call_agent has re-raised the error of the registered unit it invoked, after
\* logging the failure and marking the span.
CallAgentReraised ==
    /\ kind = "call" /\ pc = "done"
    /\ wAgents = <<1>> /\ input_data = <<7>>
    /\ log = <<StartEv(1, 1, <<7>>), RaiseEv(1, 1)>>
    /\ outcome = Raised(UnitErr(1))
    /\ obs = CallStarted("a0") \o
               <<LogEv("a2a_call_failed"), SpanEv("success", "False"),
                 SpanEv("error", UnitErr(1))>>

\* C19: a failing logger call does not alter an operation; in particular the
\* failure of logger.info("operation_completed") after the Session was saved
\* as completed leaves the Session's status and error as they are.
SinkFailureHarmless ==
    [][\A sid \in DOMAIN tasks : RunTaskLogFailed(sid) =>
          /\ store'[sid].status = store[sid].status
          /\ store'[sid].error = store[sid].error]_vars

\* C20: under every interleaving of start, pause, cancel and the background
\* task on one operation_id, the steps that remove an entry of running_tasks
\* never raise: no call ends in KeyError, the entry is absent afterwards, and
\* when it was absent already the table and the tasks are left as they are.
RemovalNeverRaises ==
    [][/\ ret'.exc # "KeyError"
       /\ \A c \in Callers :
             /\ PauseCancelTask(c) =>
                   /\ ret'.kind = "pause" /\ ret'.exc = "none"
                   /\ call[c].op \notin DOMAIN running_tasks'
                   /\ call[c].op \notin DOMAIN running_tasks =>
                         running_tasks' = running_tasks /\ tasks' = tasks
             /\ \A op \in Ops : CancelBegin(c, op) =>
                   /\ ret'.exc = "none"
                   /\ op \notin DOMAIN running_tasks'
                   /\ op \notin DOMAIN running_tasks =>
                         running_tasks' = running_tasks /\ tasks' = tasks]_vars

\* pause_operation has returned normally for an operation, started once,
\* whose entry a cancel_operation still in progress had removed before.
PausedAfterRemoval ==
    /\ ret.kind = "pause" /\ ret.exc = "none"
    /\ Cardinality({sid \in DOMAIN store :
                       store[sid].operation_id = ret.op}) = 1
    /\ \E d \in Callers :
          call[d].kind = "cancel" /\ call[d].pc = "K2" /\ call[d].op = ret.op
    /\ ret.op \notin DOMAIN running_tasks

\* C21 as stated: get_agent on a name that is absent from the registry fails
\* (raises) rather than returning a value.
GetAgentAbsentRaises ==
    [][\A n \in AgentNames :
          (get_agent(n) /\ n \notin DOMAIN agents) =>
              outcome'.kind = "raise"]_vars

\* C21 amended: get_agent never raises; it returns the registered unit, or
\* None for a name that is absent from the registry, invokes no unit and
\* leaves the registry as it is.
GetAgentAbsentNone ==
    [][\A n \in AgentNames : get_agent(n) =>
          /\ outcome'.kind = "ret"
          /\ n \in DOMAIN agents => outcome'.val = Agent(agents[n])
          /\ n \notin DOMAIN agents => outcome'.val = None
          /\ log' = << >>
          /\ agents' = agents]_vars

\* get_agent has returned None: the name asked for is not registered.
GetAgentReturnedNone ==
    /\ kind = "get" /\ pc = "done"
    /\ outcome = Returned(None)
    /\ "missing" \notin DOMAIN agents

Registered(names) == \A i \in 1 .. Len(names) : names[i] \in DOMAIN agents

Resolved(names) == [i \in 1 .. Len(names) |-> agents[names[i]]]

\* What C22 asks of a builder of kind k called on names.
BuilderContract(k, names, n) ==
    IF Registered(names)
    THEN /\ outcome' = Returned(Workflow(k, Resolved(names), n))
         /\ agents' = agents
    ELSE /\ outcome' = Raised("ValueError")
         /\ wAgents' = << >>
         /\ agents' = agents

\* C22: the workflow builders resolve every name against the registry; with
\* an unregistered name they fail with the error call_agent raises for an
\* unregistered name (ValueError) and build nothing; with registered names
\* the workflow holds the registered units in the given order.
BuildersNotFound ==
    [][/\ \A names \in NameLists :
             /\ create_sequential_workflow(names) =>
                   BuilderContract("sequential_workflow_created", names, 0)
             /\ create_parallel_workflow(names) =>
                   BuilderContract("parallel_workflow_created", names, 0)
       /\ \A a \in AgentNames, n \in 0 .. MaxIter :
             create_loop_workflow(a, n) =>
                 BuilderContract("loop_workflow_created", <<a>>, n)]_vars

\* C23: a background task that is cancelled mid-flight (by pause or cancel)
\* ends without writing to the store: the step in which it ends leaves
\* every Session as the handlers left it, and the Session of a task that
\* ended by cancellation has no error.
CancelledTaskWritesNothing ==
    [][/\ \A sid \in DOMAIN tasks :
             (/\ Live(tasks[sid]) /\ tasks[sid].cancelReq
              /\ tasks'[sid].pc = "done") => store' = store
       /\ \A sid \in DOMAIN tasks' :
             (tasks'[sid].pc = "done" /\ tasks'[sid].cancelReq) =>
                 store'[sid].error = "none"]_vars

\* The task of a paused operation was cancelled while its unit was running
\* and has ended; the Session is as pause_operation saved it.
CancelledMidFlight ==
    \E sid \in DOMAIN tasks :
        /\ tasks[sid].pc = "done" /\ tasks[sid].cancelReq
        /\ tasks[sid].unitCalls = 1
        /\ store[sid].status = "paused" /\ store[sid].paused_at # 0
        /\ store[sid].error = "none" /\ store[sid].result = 0
        /\ store[sid].completed_at = 0 /\ store[sid].failed_at = 0
        /\ Alone

\* C24: in every reachable state a Session has result set only if its unit
\* returned (the task marked it completed), error set only if its unit
\* raised, never both, and status completed comes with progress 100, the
\* result and completed_at.
ResultXorError ==
    \A sid \in DOMAIN store :
        /\ store[sid].result # 0 =>
              /\ store[sid].result = FuncResult(tasks[sid].func)
              /\ tasks[sid].session.completed_at # 0
        /\ store[sid].error # "none" =>
              /\ store[sid].error = FuncError(tasks[sid].func)
              /\ tasks[sid].session.completed_at = 0
        /\ ~(store[sid].result # 0 /\ store[sid].error # "none")
        /\ store[sid].status = "completed" =>
              /\ store[sid].progress = 100
              /\ store[sid].result # 0
              /\ store[sid].completed_at # 0

Statuses == {"running", "paused", "completed", "failed", "cancelled"}

\* C25: pause_operation does not look at the status: whatever the status of
\* the Session it found (running, paused, completed, failed, cancelled), its
\* next step saves the Session with status paused and paused_at stamped, so
\* a terminal status is not absorbing under pause.
PauseNotValidated ==
    [][\A c \in Callers :
          (call[c].kind = "pause" /\ call[c].pc = "P2" /\ call[c].sid # 0) =>
              /\ call[c].session.status \in Statuses
              /\ call'[c] # call[c] =>
                    /\ call'[c].pc = "P3"
                    /\ store'[call[c].sid] =
                           [call[c].session EXCEPT !.status = "paused",
                               !.paused_at = now]
                    /\ store'[call[c].sid].paused_at # 0]_vars

\* pause_operation has just turned a completed Session into a paused one.
PausedCompleted ==
    \E c \in Callers :
        /\ call[c].kind = "pause" /\ call[c].pc = "P3"
        /\ store[call[c].sid].status = "paused"
        /\ store[call[c].sid].result = 42
        /\ store[call[c].sid].completed_at # 0
        /\ store[call[c].sid].paused_at > store[call[c].sid].completed_at
        /\ tasks[call[c].sid].pc = "done"

SnapshotKeys ==
    {"status", "progress", "error", "started_at", "paused_at", "resumed_at",
     "completed_at", "failed_at", "cancelled_at"}

\* C26: get_status changes nothing and does not raise; it returns None when
\* no Session matches, and otherwise a projection that holds the Session's
\* status, progress, error and all six lifecycle timestamps.
StatusProjection ==
    ret.kind = "status" =>
        /\ ret.exc = "none"
        /\ IF FindSession(store, ret.op) = 0
           THEN ret.val = None
           ELSE /\ ret.val # None
                /\ SnapshotKeys \subseteq DOMAIN ret.val
                /\ \A k \in (DOMAIN ret.val) \ {"operation_id", "progress"} :
                      ret.val[k] = store[FindSession(store, ret.op)][k]

\* The Session start_operation(op, user, unit, kw) creates at time t.
StartedSession(op, user, kw, t) ==
    [NoSession EXCEPT !.user_id = user, !.operation_id = op,
        !.status = "running", !.progress = 0, !.started_at = t,
        !.kwargs = kw]

\* No pause, resume or cancel handler has written to session s.
Unstamped(s) == s.paused_at = 0 /\ s.resumed_at = 0 /\ s.cancelled_at = 0

StatusPersistedBeforeCancel ==
    [][\A sid \in DOMAIN tasks :
          (~tasks[sid].cancelReq /\ tasks'[sid].cancelReq) =>
              store'[sid].status # "running"]_vars

\* start_operation has returned for a Session with operation_id op.
Started(op) ==
    \E sid \in DOMAIN store :
        store[sid].operation_id = op /\ tasks[sid].pc # "none"

\* C29: for an operation started under any user_id, a pause_operation,
\* resume_operation, cancel_operation or get_status that begins after
\* start_operation returned finds the Session of the operation: the lookup
\* of the handler yields a Session and get_status does not return None.
StartedOperationFound ==
    [][\A op \in Ops : Started(op) =>
          /\ \A c \in Callers :
                (/\ call[c].pc = "idle"
                 /\ call'[c].pc \in {"P2", "R2", "K2"}
                 /\ call'[c].op = op) => call'[c].sid # 0
          /\ (ret'.kind = "status" /\ ret'.op = op) => ret'.val # None]_vars

\* A pause_operation that found session sid is in progress.
Pausing(sid) ==
    \E c \in Callers : call[c].kind = "pause" /\ call[c].sid = sid

\* C30: when pause_operation returns without error, the Session it found
\* has status paused, and once no pause is in progress on a paused Session
\* no step of the background task turns it into completed or failed.
PauseStaysPaused ==
    [][/\ \A c \in Callers :
             (/\ call[c].kind = "pause" /\ call'[c] = IdleCall
              /\ ret'.exc = "none") =>
                 store'[call[c].sid].status = "paused"
       /\ \A sid \in DOMAIN store :
             (store[sid].status = "paused" /\ ~Pausing(sid)) =>
                 store'[sid].status \notin {"completed", "failed"}]_vars

====
